---- MODULE Spec2Model ----
(***************************************************************************)
(* Model of src/src/jsonpointer.js: jsonpointer.get(target, pointer).       *)
(*                                                                         *)
(* JavaScript strings are sequences of one-character strings, so that      *)
(* split, replace, length and indexing are computed as the code computes   *)
(* them.  JavaScript values are records tagged by the field t.             *)
(***************************************************************************)
EXTENDS Integers, Sequences, FiniteSets, TLC

\* Longest pointer string of the specification Spec.
MaxLen == 4

\* Longest raw reference token of the specification SpecToken.
MaxTok == 3

\* The word "constructor", kept as one symbol: it holds no '/', no '~', no
\* digit and no white space, so no operation of the program looks inside it.
CONSTRUCTOR == "constructor"

\* Characters of the pointers of Spec.
PointerChars == {"/", "~", "0", "1", "-", "a"}

\* Characters of the raw tokens of SpecToken (a raw token holds no '/').
TokenChars == {"~", "0", "1", "2", "-", "a", ".", "e", " ", CONSTRUCTOR}

StringsUpTo(A, n) == UNION {[1..k -> A] : k \in 0..n}

(***************************************************************************)
(* JavaScript values.                                                      *)
(***************************************************************************)
Undefined == [t |-> "undefined"]
Null == [t |-> "null"]
Num(n) == [t |-> "number", n |-> n]
Bool(b) == [t |-> "boolean", b |-> b]
\* A string value held as its characters.
Str(s) == [t |-> "string", s |-> s]
\* A document text, held whole: the program only hands it to JSON.parse.
DocText(x) == [t |-> "string", text |-> x]
Arr(items) == [t |-> "array", items |-> items]
\* members: a function from the own keys (character sequences) to values.
Obj(members) == [t |-> "object", members |-> members]
\* A built-in function object (Object, Array).
Fn(name) == [t |-> "function", name |-> name]

\* The typeof operator.
typeof(v) ==
  CASE v.t \in {"null", "array", "object"} -> "object"
    [] OTHER -> v.t

(***************************************************************************)
(* Constants of the module.                                                *)
(***************************************************************************)
\* Variant: the two pairs listed in the other order.
SPECIAL_CHARACTERS_Swapped ==
  << [character |-> "~", escapeSequence |-> <<"~", "0">>],
     [character |-> "/", escapeSequence |-> <<"~", "1">>] >>

\* The pairs in the order of the source: '/' is unescaped first.
SPECIAL_CHARACTERS ==
  << [character |-> "/", escapeSequence |-> <<"~", "1">>],
     [character |-> "~", escapeSequence |-> <<"~", "0">>] >>

TOKENS_SEPARATOR == "/"

HYPHEN_IS_NOT_SUPPORTED_IN_ARRAY_CONTEXT == "HYPHEN_IS_NOT_SUPPORTED_IN_ARRAY_CONTEXT"
INVALID_DOCUMENT == "INVALID_DOCUMENT"
INVALID_DOCUMENT_TYPE == "INVALID_DOCUMENT_TYPE"
INVALID_POINTER == "INVALID_POINTER"
NON_NUMBER_TOKEN_IN_ARRAY_CONTEXT == "NON_NUMBER_TOKEN_IN_ARRAY_CONTEXT"
TOKEN_WITH_LEADING_ZERO_IN_ARRAY_CONTEXT == "TOKEN_WITH_LEADING_ZERO_IN_ARRAY_CONTEXT"

\* No error thrown.
NoError == "none"

(***************************************************************************)
(* Type probes.                                                            *)
(***************************************************************************)
isObject(o) == "object" = typeof(o) /\ o.t # "null"

isArray(a) == a.t = "array"

\* JSON.parse and the callers' literals never build String objects, so the
\* instanceof String disjunct adds nothing here.
isString(s) == "string" = typeof(s)

isUndefined(v) == "undefined" = typeof(v)

(***************************************************************************)
(* Number(n) of a string, as far as isNaN needs it: the StringToNumber     *)
(* grammar over the characters of the model.  "Infinity" and the 0x, 0o,   *)
(* 0b literals need letters the model's strings do not hold.               *)
(***************************************************************************)
DecimalDigits == {"0", "1", "2", "3", "4", "5", "6", "7", "8", "9"}

StrWhiteSpaceChars == {" "}

IsDecimalDigits(s) == s # <<>> /\ \A i \in 1..Len(s) : s[i] \in DecimalDigits

IsSignedInteger(s) ==
  \/ IsDecimalDigits(s)
  \/ Len(s) > 1 /\ s[1] \in {"+", "-"} /\ IsDecimalDigits(Tail(s))

IsOptExponentPart(s) ==
  \/ s = <<>>
  \/ Len(s) > 1 /\ s[1] \in {"e", "E"} /\ IsSignedInteger(Tail(s))

IsStrUnsignedDecimalLiteral(s) ==
  \E i \in 0..Len(s) : \E j \in i..Len(s) :
    LET a == SubSeq(s, 1, i)
        b == SubSeq(s, i + 1, j)
        c == SubSeq(s, j + 1, Len(s))
    IN /\ IsOptExponentPart(c)
       /\ \/ IsDecimalDigits(a) /\ b = <<>>
          \/ IsDecimalDigits(a) /\ Len(b) >= 1 /\ b[1] = "."
               /\ (Len(b) = 1 \/ IsDecimalDigits(Tail(b)))
          \/ a = <<>> /\ Len(b) > 1 /\ b[1] = "." /\ IsDecimalDigits(Tail(b))

IsStrDecimalLiteral(s) ==
  \/ IsStrUnsignedDecimalLiteral(s)
  \/ Len(s) > 1 /\ s[1] \in {"+", "-"} /\ IsStrUnsignedDecimalLiteral(Tail(s))

RECURSIVE trimStart(_)
trimStart(s) ==
  IF s # <<>> /\ s[1] \in StrWhiteSpaceChars THEN trimStart(Tail(s)) ELSE s

RECURSIVE trimEnd(_)
trimEnd(s) ==
  IF s # <<>> /\ s[Len(s)] \in StrWhiteSpaceChars
  THEN trimEnd(SubSeq(s, 1, Len(s) - 1)) ELSE s

\* isNaN(Number(s)): an empty or all-blank string converts to 0.
NumberIsNaN(s) ==
  LET body == trimEnd(trimStart(s))
  IN ~(body = <<>> \/ IsStrDecimalLiteral(body))

isNumber(n) == ~NumberIsNaN(n)

(***************************************************************************)
(* String and array built-ins.                                             *)
(***************************************************************************)
\* String.prototype.split with a one-character separator.
RECURSIVE split(_, _)
split(s, separator) ==
  IF \A i \in 1..Len(s) : s[i] # separator
  THEN <<s>>
  ELSE LET i == CHOOSE k \in 1..Len(s) :
                  s[k] = separator /\ \A j \in 1..(k - 1) : s[j] # separator
       IN <<SubSeq(s, 1, i - 1)>> \o split(SubSeq(s, i + 1, Len(s)), separator)

\* Array.prototype.reverse.
reverse(list) == [i \in 1..Len(list) |-> list[Len(list) + 1 - i]]

\* Array.prototype.pop: the removed element (undefined on an empty array)
\* and the array that is left.
popped(list) == IF list = <<>> THEN Undefined ELSE Str(list[Len(list)])

afterPop(list) == IF list = <<>> THEN list ELSE SubSeq(list, 1, Len(list) - 1)

\* s.replace(new RegExp(pattern, 'g'), character): the matches are found
\* left to right and do not overlap; the replacement is not scanned again.
RECURSIVE replaceAll(_, _, _)
replaceAll(s, pattern, character) ==
  IF Len(s) < Len(pattern) THEN s
  ELSE IF SubSeq(s, 1, Len(pattern)) = pattern
       THEN <<character>>
              \o replaceAll(SubSeq(s, Len(pattern) + 1, Len(s)), pattern, character)
       ELSE <<s[1]>> \o replaceAll(Tail(s), pattern, character)

\* The length property of a string.
CharLength(c) == IF c = CONSTRUCTOR THEN 11 ELSE 1

RECURSIVE length(_)
length(s) == IF s = <<>> THEN 0 ELSE CharLength(s[1]) + length(Tail(s))

(***************************************************************************)
(* context[token]: the own property named token, else the one inherited    *)
(* from Object.prototype or Array.prototype.                               *)
(***************************************************************************)
RECURSIVE DecimalString(_)
DecimalString(i) ==
  LET digit(d) == CASE d = 0 -> "0" [] d = 1 -> "1" [] d = 2 -> "2"
                    [] d = 3 -> "3" [] d = 4 -> "4" [] d = 5 -> "5"
                    [] d = 6 -> "6" [] d = 7 -> "7" [] d = 8 -> "8"
                    [] d = 9 -> "9"
  IN IF i < 10 THEN <<digit(i)>> ELSE DecimalString(i \div 10) \o <<digit(i % 10)>>

\* Properties every object and array inherits, among the strings of the model.
PrototypeProperty(context, token) ==
  IF token = <<CONSTRUCTOR>>
  THEN Fn(IF context.t = "array" THEN "Array" ELSE "Object")
  ELSE Undefined

getProperty(context, token) ==
  IF context.t = "array"
  THEN IF \E i \in 1..Len(context.items) : DecimalString(i - 1) = token
       THEN context.items[CHOOSE i \in 1..Len(context.items) :
                             DecimalString(i - 1) = token]
       ELSE PrototypeProperty(context, token)
  ELSE IF token \in DOMAIN context.members
       THEN context.members[token]
       ELSE PrototypeProperty(context, token)

(***************************************************************************)
(* The functions of the module.                                            *)
(***************************************************************************)
\* NON_EMPTY_POINTER_REGEXP.test(pointer): the expression is not anchored,
\* so it looks for a match at any position; a match is one or more groups,
\* each a '/' followed by characters other than '/'.
RECURSIVE IsGroups(_)
IsGroups(u) ==
  /\ u # <<>>
  /\ u[1] = "/"
  /\ \E k \in 1..Len(u) :
       /\ \A j \in 2..k : u[j] # "/"
       /\ (k = Len(u) \/ IsGroups(SubSeq(u, k + 1, Len(u))))

NON_EMPTY_POINTER_REGEXP(s) ==
  \E i \in 1..Len(s) : \E j \in i..Len(s) : IsGroups(SubSeq(s, i, j))

isValidJSONPointer(pointer) ==
  CASE ~isString(pointer) -> FALSE
    [] isString(pointer) /\ pointer.s = <<>> -> TRUE
    [] isString(pointer) /\ pointer.s # <<>>
         /\ NON_EMPTY_POINTER_REGEXP(pointer.s) -> TRUE
    [] OTHER -> FALSE

\* pointer.split(TOKENS_SEPARATOR).reverse()
splitReversed(pointer) == reverse(split(pointer, TOKENS_SEPARATOR))

\* Variant: the call of reverse() left out.
parsePointer_NotReversed(pointer) == afterPop(split(pointer, TOKENS_SEPARATOR))

parsePointer(pointer) == afterPop(splitReversed(pointer))

\* Variant: only the first pair of SPECIAL_CHARACTERS is applied.
unescapeReferenceToken_FirstPairOnly(rawReferenceToken) ==
  replaceAll(rawReferenceToken,
             SPECIAL_CHARACTERS[1].escapeSequence,
             SPECIAL_CHARACTERS[1].character)

unescapeReferenceToken(rawReferenceToken) ==
  LET first == replaceAll(rawReferenceToken,
                          SPECIAL_CHARACTERS[1].escapeSequence,
                          SPECIAL_CHARACTERS[1].character)
  IN replaceAll(first,
                SPECIAL_CHARACTERS[2].escapeSequence,
                SPECIAL_CHARACTERS[2].character)

\* The outcome of getValue: the error thrown (NoError when it returns), the
\* value returned, and the unescaped token it worked with.
Outcome(e, v, tok) == [err |-> e, value |-> v, token |-> tok]

\* Variant: the three token tests run before the isArray test.
getValue_ChecksHoisted(context, rawToken) ==
  LET token == unescapeReferenceToken(rawToken)
  IN IF <<"-">> = token
     THEN Outcome(HYPHEN_IS_NOT_SUPPORTED_IN_ARRAY_CONTEXT, Undefined, token)
     ELSE IF ~isNumber(token)
     THEN Outcome(NON_NUMBER_TOKEN_IN_ARRAY_CONTEXT, Undefined, token)
     ELSE IF length(token) > 1 /\ "0" = token[1]
     THEN Outcome(TOKEN_WITH_LEADING_ZERO_IN_ARRAY_CONTEXT, Undefined, token)
     ELSE IF isArray(context) \/ isObject(context)
          THEN Outcome(NoError, getProperty(context, token), token)
          ELSE Outcome(NoError, Undefined, token)

\* Variant: the leading-zero test left out.
getValue_NoLeadingZeroTest(context, rawToken) ==
  LET token == unescapeReferenceToken(rawToken)
  IN IF isArray(context)
     THEN IF <<"-">> = token
          THEN Outcome(HYPHEN_IS_NOT_SUPPORTED_IN_ARRAY_CONTEXT, Undefined, token)
          ELSE IF ~isNumber(token)
          THEN Outcome(NON_NUMBER_TOKEN_IN_ARRAY_CONTEXT, Undefined, token)
          ELSE Outcome(NoError, getProperty(context, token), token)
     ELSE IF isObject(context)
          THEN Outcome(NoError, getProperty(context, token), token)
          ELSE Outcome(NoError, Undefined, token)

getValue(context, rawToken) ==
  LET token == unescapeReferenceToken(rawToken)
  IN IF isArray(context)
     THEN IF <<"-">> = token
          THEN Outcome(HYPHEN_IS_NOT_SUPPORTED_IN_ARRAY_CONTEXT, Undefined, token)
          ELSE IF ~isNumber(token)
          THEN Outcome(NON_NUMBER_TOKEN_IN_ARRAY_CONTEXT, Undefined, token)
          ELSE IF length(token) > 1 /\ "0" = token[1]
          THEN Outcome(TOKEN_WITH_LEADING_ZERO_IN_ARRAY_CONTEXT, Undefined, token)
          ELSE Outcome(NoError, getProperty(context, token), token)
     ELSE IF isObject(context)
          THEN Outcome(NoError, getProperty(context, token), token)
          ELSE Outcome(NoError, Undefined, token)

(***************************************************************************)
(* JSON.parse, the standard decoder, on the document texts of the model:   *)
(* the value it builds, or a failure on a text that is not JSON.           *)
(***************************************************************************)
Parsed(v) == [ok |-> TRUE, value |-> v]

SyntaxError == [ok |-> FALSE, value |-> Undefined]

TextNested == "{\"a\":{\"0\":[4,5]},\"0\":{\"a\":6,\"\":null}}"
TextArray == "[[1,2],{\"a\":3},null]"
TextKeys == "{\"a\":1,\"\":{\"\":2},\"/\":3,\"~\":4,\"~1\":5,\"01\":6,\"-\":7}"
TextOwnConstructor == "{\"constructor\":8}"
TextNumber == "5"
TextString == "\"a\""
TextTrue == "true"
TextNull == "null"
TextNotJson == "not json"
TextEmpty == ""

DocTexts ==
  {TextNested, TextArray, TextKeys, TextOwnConstructor, TextNumber,
   TextString, TextTrue, TextNull, TextNotJson, TextEmpty}

JSONparse(text) ==
  CASE text = TextNested ->
         Parsed(Obj(<<"a">> :> Obj(<<"0">> :> Arr(<<Num(4), Num(5)>>))
                    @@ <<"0">> :> Obj(<<"a">> :> Num(6) @@ <<>> :> Null)))
    [] text = TextArray ->
         Parsed(Arr(<<Arr(<<Num(1), Num(2)>>), Obj(<<"a">> :> Num(3)), Null>>))
    [] text = TextKeys ->
         Parsed(Obj(<<"a">> :> Num(1)
                    @@ <<>> :> Obj(<<>> :> Num(2))
                    @@ <<"/">> :> Num(3)
                    @@ <<"~">> :> Num(4)
                    @@ <<"~", "1">> :> Num(5)
                    @@ <<"0", "1">> :> Num(6)
                    @@ <<"-">> :> Num(7)))
    [] text = TextOwnConstructor -> Parsed(Obj(<<CONSTRUCTOR>> :> Num(8)))
    [] text = TextNumber -> Parsed(Num(5))
    [] text = TextString -> Parsed(Str(<<"a">>))
    [] text = TextTrue -> Parsed(Bool(TRUE))
    [] text = TextNull -> Parsed(Null)
    [] OTHER -> SyntaxError

(***************************************************************************)
(* getPointedValue(target, pointer) as a state machine.  document and      *)
(* pointer are the arguments; target is the local the code overwrites with *)
(* the parsed document; pc is the line about to run.                       *)
(***************************************************************************)
VARIABLES document, pointer, pc, target, tokensList, discarded, token,
          refToken, value, err, result

vars == <<document, pointer, pc, target, tokensList, discarded, token,
          refToken, value, err, result>>

\* Arguments of a call: any value as the document, any value as the pointer.
Documents == {DocText(x) : x \in DocTexts} \cup {Num(42)}

Pointers == {Str(s) : s \in StringsUpTo(PointerChars, MaxLen)} \cup {Num(7), Null}

\* Pointers of one reference token.
TokenPointers == {Str(<<"/">> \o s) : s \in StringsUpTo(TokenChars, MaxTok)}

Entry(d, p) ==
  /\ document = d
  /\ pointer = p
  /\ pc = "l77"
  /\ target = d
  /\ tokensList = <<>>
  /\ discarded = Undefined
  /\ token = Undefined
  /\ refToken = Undefined
  /\ value = Undefined
  /\ err = NoError
  /\ result = Undefined

Init == \E d \in Documents : \E p \in Pointers : Entry(d, p)

InitToken == \E d \in Documents : \E p \in TokenPointers : Entry(d, p)

Throw(message) ==
  /\ pc' = "thrown"
  /\ err' = message

\* Variant: the document type is not tested.
CheckDocumentType_Skipped ==
  /\ pc = "l77"
  /\ pc' = "l80"
  /\ UNCHANGED <<document, pointer, target, tokensList, discarded, token,
                 refToken, value, err, result>>

\* if (!isString(target)) throw INVALID_DOCUMENT_TYPE
CheckDocumentType ==
  /\ pc = "l77"
  /\ IF ~isString(target)
     THEN Throw(INVALID_DOCUMENT_TYPE)
     ELSE pc' = "l80" /\ UNCHANGED err
  /\ UNCHANGED <<document, pointer, target, tokensList, discarded, token,
                 refToken, value, result>>

\* if (!isValidJSONPointer(pointer)) throw INVALID_POINTER
CheckPointer ==
  /\ pc = "l80"
  /\ IF ~isValidJSONPointer(pointer)
     THEN Throw(INVALID_POINTER)
     ELSE pc' = "l83" /\ UNCHANGED err
  /\ UNCHANGED <<document, pointer, target, tokensList, discarded, token,
                 refToken, value, result>>

\* try { target = JSON.parse(target) } catch (e) { throw INVALID_DOCUMENT }
ParseDocument ==
  /\ pc = "l83"
  /\ LET parsed == IF isString(target) THEN JSONparse(target.text)
                   ELSE Parsed(target)
     IN IF ~parsed.ok
        THEN Throw(INVALID_DOCUMENT) /\ UNCHANGED target
        ELSE pc' = "l91" /\ target' = parsed.value /\ UNCHANGED err
  /\ UNCHANGED <<document, pointer, tokensList, discarded, token, refToken,
                 value, result>>

\* var tokensList = parsePointer(pointer); var value = target;
\* discarded is what the tokens.pop() of parsePointer removes.
ParsePointer ==
  /\ pc = "l91"
  /\ tokensList' = parsePointer(pointer.s)
  /\ discarded' = popped(splitReversed(pointer.s))
  /\ value' = target
  /\ pc' = "l95"
  /\ UNCHANGED <<document, pointer, target, token, refToken, err, result>>

\* while (!isUndefined(value) && ...): the first operand is false, pop is
\* not called.
LoopExitAbsent ==
  /\ pc = "l95"
  /\ isUndefined(value)
  /\ pc' = "l99"
  /\ UNCHANGED <<document, pointer, target, tokensList, discarded, token,
                 refToken, value, err, result>>

\* ... && !isUndefined(token = tokensList.pop()): the list is empty.
LoopExitEmpty ==
  /\ pc = "l95"
  /\ ~isUndefined(value)
  /\ isUndefined(popped(tokensList))
  /\ token' = popped(tokensList)
  /\ tokensList' = afterPop(tokensList)
  /\ pc' = "l99"
  /\ UNCHANGED <<document, pointer, target, discarded, refToken, value, err,
                 result>>

\* One turn of the loop: value = getValue(value, token).
LoopBody ==
  /\ pc = "l95"
  /\ ~isUndefined(value)
  /\ ~isUndefined(popped(tokensList))
  /\ token' = popped(tokensList)
  /\ tokensList' = afterPop(tokensList)
  /\ LET outcome == getValue(value, popped(tokensList).s)
     IN /\ refToken' = Str(outcome.token)
        /\ IF outcome.err # NoError
           THEN Throw(outcome.err) /\ UNCHANGED value
           ELSE value' = outcome.value /\ pc' = "l95" /\ UNCHANGED err
  /\ UNCHANGED <<document, pointer, target, discarded, result>>

\* return value;
Return ==
  /\ pc = "l99"
  /\ result' = value
  /\ pc' = "done"
  /\ UNCHANGED <<document, pointer, target, tokensList, discarded, token,
                 refToken, value, err>>

Next ==
  \/ CheckDocumentType
  \/ CheckPointer
  \/ ParseDocument
  \/ ParsePointer
  \/ LoopExitAbsent
  \/ LoopExitEmpty
  \/ LoopBody
  \/ Return

\* Calls of get with any document and any pointer of up to MaxLen characters.
Spec == Init /\ [][Next]_vars

\* Calls of get with a pointer of one reference token of up to MaxTok
\* characters, over the larger alphabet.
SpecToken == InitToken /\ [][Next]_vars

(***************************************************************************)
(* Properties.                                                             *)
(***************************************************************************)
Finished == pc \in {"done", "thrown"}

\* The document is a text that JSON.parse accepts.
Parseable == isString(document) /\ JSONparse(document.text).ok

\* The pointer is the empty string or a string that begins with '/'.
EmptyOrLeadingSlash ==
  isString(pointer) /\ (pointer.s = <<>> \/ pointer.s[1] = "/")

\* getValue has run at least once: refToken holds its unescaped token.
Stepped == isString(refToken)

\* The raw tokens of a pointer that is empty or begins with '/', found by
\* reading the pointer from its first character on: one token per '/'.
RECURSIVE RootToLeafTokens(_)
RootToLeafTokens(p) ==
  IF p = <<>> THEN <<>>
  ELSE LET rest == Tail(p)
           n == CHOOSE k \in 0..Len(rest) :
                  /\ \A j \in 1..k : rest[j] # "/"
                  /\ (k = Len(rest) \/ rest[k + 1] = "/")
       IN <<SubSeq(rest, 1, n)>> \o RootToLeafTokens(SubSeq(rest, n + 1, Len(rest)))

\* The evaluation step applied to the tokens first to last, with no early
\* exit; array tells whether some step ran in array context.
RECURSIVE ApplyTokens(_, _)
ApplyTokens(v, tokens) ==
  IF tokens = <<>> THEN [err |-> NoError, value |-> v, array |-> FALSE]
  ELSE LET o == getValue(v, Head(tokens))
       IN IF o.err # NoError
          THEN [err |-> o.err, value |-> Undefined, array |-> isArray(v)]
          ELSE LET r == ApplyTokens(o.value, Tail(tokens))
               IN [r EXCEPT !.array = @ \/ isArray(v)]

\* C1: for a parseable document and a pointer that is empty or begins with
\* '/', get returns the value reached by applying the raw tokens in
\* root-to-leaf order, fails only if an array was traversed, and returns the
\* whole parsed document for the empty pointer.
C1_RootToLeafOrder ==
  (Finished /\ Parseable /\ EmptyOrLeadingSlash) =>
    LET root == JSONparse(document.text).value
        r == ApplyTokens(root, RootToLeafTokens(pointer.s))
    IN /\ pc = "done" => (r.err = NoError /\ result = r.value)
       /\ pc = "thrown" => (r.array /\ err = r.err)
       /\ pointer.s = <<>> => (pc = "done" /\ result = root)

C1_Witness ==
  /\ pc = "done"
  /\ document = DocText(TextNested)
  /\ pointer = Str(<<"/", "a", "/", "0">>)
  /\ result = Arr(<<Num(4), Num(5)>>)

\* C2: for a string document, get fails with InvalidPointer exactly when the
\* pointer is not the empty string and not a string that begins with '/'.
C2_InvalidPointerIffNoLeadingSlash ==
  (Finished /\ isString(document)) =>
    ((err = INVALID_POINTER) <=> ~EmptyOrLeadingSlash)

\* C3: in object context the step never fails and returns the value of the
\* own key named by the unescaped token, absent when the object has no such
\* key.
C3_ObjectOwnKeysOnly ==
  (Stepped /\ isString(token) /\ target.t = "object") =>
    /\ err = NoError
    /\ value = IF refToken.s \in DOMAIN target.members
               THEN target.members[refToken.s]
               ELSE Undefined

\* A base-10 integer: digits, with an optional sign.
Base10Integer(s) ==
  LET digits == IF s # <<>> /\ s[1] \in {"+", "-"} THEN Tail(s) ELSE s
  IN digits # <<>> /\ \A i \in 1..Len(digits) : digits[i] \in DecimalDigits

\* C4: in array context every unescaped token that is not a base-10 integer
\* (the append token '-' aside, which has its own failure) fails with
\* NonNumericArrayToken.
C4_NonIntegerTokenFails ==
  (Stepped /\ isString(token) /\ target.t = "array"
     /\ refToken.s # <<"-">> /\ ~Base10Integer(refToken.s)) =>
    err = NON_NUMBER_TOKEN_IN_ARRAY_CONTEXT

DigitOnly(s) == s # <<>> /\ \A i \in 1..Len(s) : s[i] \in DecimalDigits

RECURSIVE DigitsValue(_)
DigitsValue(s) ==
  IF s = <<>> THEN 0
  ELSE 10 * DigitsValue(SubSeq(s, 1, Len(s) - 1))
         + (CHOOSE d \in 0..9 : DecimalString(d) = <<s[Len(s)]>>)

\* C5: in array context '-' fails with UnsupportedArrayAppend, a digit-only
\* token longer than one character that begins with '0' fails with
\* LeadingZeroArrayToken, and "0" and the digit-only tokens without leading
\* '0' return the element at that index, absent when out of bounds.
C5_ArrayIndexTokens ==
  (Stepped /\ isString(token) /\ target.t = "array") =>
    LET tok == refToken.s
    IN /\ tok = <<"-">> => err = HYPHEN_IS_NOT_SUPPORTED_IN_ARRAY_CONTEXT
       /\ (DigitOnly(tok) /\ Len(tok) > 1 /\ tok[1] = "0") =>
            err = TOKEN_WITH_LEADING_ZERO_IN_ARRAY_CONTEXT
       /\ (DigitOnly(tok) /\ (Len(tok) = 1 \/ tok[1] # "0")) =>
            /\ err = NoError
            /\ value = IF DigitsValue(tok) < Len(target.items)
                       THEN target.items[DigitsValue(tok) + 1]
                       ELSE Undefined

C5_Witness ==
  /\ Stepped
  /\ document = DocText(TextArray)
  /\ refToken = Str(<<"2">>)
  /\ value = Null
  /\ err = NoError

ScalarOrNull(v) == v.t \in {"number", "string", "boolean", "null"}

\* C6: a step in scalar or null context returns absent and does not fail,
\* whatever the token; once the value is absent no further token is applied
\* and get returns absent.
C6_ScalarContextYieldsAbsent ==
  [][/\ (pc = "l95" /\ ScalarOrNull(value) /\ tokensList # <<>>) =>
          (pc' = "l95" /\ isUndefined(value') /\ err' = NoError)
     /\ (pc = "l95" /\ isUndefined(value)) =>
          (pc' = "l99" /\ tokensList' = tokensList /\ err' = NoError)
     /\ (pc = "l99" /\ isUndefined(value)) =>
          (pc' = "done" /\ isUndefined(result') /\ err' = NoError)]_vars

C6_Witness ==
  /\ pc = "done"
  /\ document = DocText(TextKeys)
  /\ pointer = Str(<<"/", "a", "/", "-">>)
  /\ isUndefined(result)
  /\ err = NoError

ArrayTokenErrors ==
  {HYPHEN_IS_NOT_SUPPORTED_IN_ARRAY_CONTEXT, NON_NUMBER_TOKEN_IN_ARRAY_CONTEXT,
   TOKEN_WITH_LEADING_ZERO_IN_ARRAY_CONTEXT}

\* C7: get reports the first failure only, in the order InvalidDocumentType,
\* InvalidPointer, InvalidDocument; an array-token failure needs all three
\* checks to have passed.
C7_FirstFailureOnly ==
  Finished =>
    /\ ~isString(document) => err = INVALID_DOCUMENT_TYPE
    /\ (isString(document) /\ ~isValidJSONPointer(pointer)) =>
         err = INVALID_POINTER
    /\ (isString(document) /\ isValidJSONPointer(pointer) /\ ~Parseable) =>
         err = INVALID_DOCUMENT
    /\ err \in ArrayTokenErrors =>
         (isString(document) /\ isValidJSONPointer(pointer) /\ Parseable)

C7_Witness ==
  /\ pc = "thrown"
  /\ err = INVALID_POINTER
  /\ document = DocText(TextNotJson)
  /\ pointer = Str(<<"a">>)

\* Re-escaping: every '~' to '~0' first, then every '/' to '~1'.
RECURSIVE ExpandChar(_, _, _)
ExpandChar(s, character, escapeSequence) ==
  IF s = <<>> THEN <<>>
  ELSE (IF s[1] = character THEN escapeSequence ELSE <<s[1]>>)
         \o ExpandChar(Tail(s), character, escapeSequence)

Reescape(s) == ExpandChar(ExpandChar(s, "~", <<"~", "0">>), "/", <<"~", "1">>)

ContainsEscape(s) ==
  \E i \in 1..(Len(s) - 1) : s[i] = "~" /\ s[i + 1] \in {"0", "1"}

\* Every '~' of the token starts an escape sequence.
EveryTildeEscapes(s) ==
  \A i \in 1..Len(s) : s[i] = "~" => (i < Len(s) /\ s[i + 1] \in {"0", "1"})

\* C8 as stated: every raw token that contains '~0' or '~1' is given back by
\* unescaping and then re-escaping.
C8_RoundTripAnyToken ==
  (Stepped /\ isString(token) /\ ContainsEscape(token.s)) =>
    Reescape(refToken.s) = token.s

\* C8 as amended: every raw token that contains '~0' or '~1', and in which
\* every '~' is followed by '0' or '1', is given back by unescaping and then
\* re-escaping.
C8_RoundTripWellFormedToken ==
  (Stepped /\ isString(token) /\ ContainsEscape(token.s)
     /\ EveryTildeEscapes(token.s)) =>
    Reescape(refToken.s) = token.s

C8_Witness ==
  /\ Stepped
  /\ token = Str(<<"a", "~", "1">>)
  /\ refToken = Str(<<"a", "/">>)
  /\ Reescape(refToken.s) = token.s

\* One left-to-right pass: '~0' to '~', '~1' to '/', decoded characters are
\* not read again.
RECURSIVE SinglePassDecode(_)
SinglePassDecode(s) ==
  IF s = <<>> THEN <<>>
  ELSE IF Len(s) >= 2 /\ s[1] = "~" /\ s[2] = "0"
       THEN <<"~">> \o SinglePassDecode(SubSeq(s, 3, Len(s)))
  ELSE IF Len(s) >= 2 /\ s[1] = "~" /\ s[2] = "1"
       THEN <<"/">> \o SinglePassDecode(SubSeq(s, 3, Len(s)))
  ELSE <<s[1]>> \o SinglePassDecode(Tail(s))

\* C9: the two global substitutions decode a raw token as one left-to-right
\* pass does; '~01' becomes '~1', not '/'.
C9_SubstitutionsAreOnePass ==
  (Stepped /\ isString(token)) => refToken.s = SinglePassDecode(token.s)

C9_Witness ==
  /\ Stepped
  /\ token = Str(<<"~", "0", "1">>)
  /\ refToken = Str(<<"~", "1">>)

\* C10: for an accepted non-empty pointer the element that parsePointer
\* discards is the empty string.
C10_DiscardedIsEmpty ==
  (isString(discarded) /\ pointer.s # <<>>) => discarded = Str(<<>>)

====
